---- MODULE Spec2Model ----
(***************************************************************************)
(* Model of package goseapi (stackexchange.go): the request builder        *)
(* (Params.values, fillPlaceholders, JoinIDs, URL assembly in Client.Do),  *)
(* the response decoder (parseResponse, items.UnmarshalJSON) and the       *)
(* control flow of Client.Do around the transport.                         *)
(*                                                                         *)
(* A Go string / []byte is modelled as a sequence of one-character         *)
(* strings, so that indexing, slicing and byte comparison are explicit.    *)
(***************************************************************************)
EXTENDS Integers, Sequences, FiniteSets, TLC

VARIABLES
    \* fillPlaceholders(s, args): its locals and its position
    fpc, s, args, b, buf, argIdx, fret,
    \* JoinIDs(ids): its locals and its position
    jpc, ids, jbuf, jn, jret,
    \* parseResponse(r, v): the document on the reader, the destination, and
    \* what it returns
    ppc, r, v, wrapper, perr,
    \* Client.Do(path, v, params): the receiver c, the arguments (dv is v), the
    \* locals client, root, vals, req, resp and err, the results (wret, eret),
    \* its position, and what it has done to the world so far (log)
    pc, c, path, params, dv, client, root, vals, req, resp, err, wret, eret, log

fillVars == <<fpc, s, args, b, buf, argIdx, fret>>
joinVars == <<jpc, ids, jbuf, jn, jret>>
parseVars == <<ppc, r, v, wrapper, perr>>
doVars == <<pc, c, path, params, dv, client, root, vals, req, resp, err, wret, eret, log>>
vars == <<fillVars, joinVars, parseVars, doVars>>

\* what an operation leaves alone: the state of the other operations
FillFrame == UNCHANGED <<joinVars, parseVars, doVars>>
JoinFrame == UNCHANGED <<fillVars, parseVars, doVars>>
ParseFrame == UNCHANGED <<fillVars, joinVars, doVars>>
DoFrame == UNCHANGED <<fillVars, joinVars, parseVars>>

\* a nil error
Nil == "nil"

\* a pointer: nil, or a reference to a value
NilPtr == <<>>
Ref(x) == <<x>>
Deref(p) == p[1]

----------------------------------------------------------------------------
(* Bytes and strings *)

\* the printable ASCII characters, in byte order, starting at byte 32 (the
\* double quote, backslash and backquote are spelled out)
Ascii == <<" ", "!", "DQUOTE", "#", "$", "%", "&", "'", "(", ")", "*", "+", ",", "-", ".", "/", "0", "1", "2", "3", "4", "5", "6", "7", "8", "9", ":", ";", "<", "=", ">", "?", "@", "A", "B", "C", "D", "E", "F", "G", "H", "I", "J", "K", "L", "M", "N", "O", "P", "Q", "R", "S", "T", "U", "V", "W", "X", "Y", "Z", "[", "BSLASH", "]", "^", "_", "BTICK", "a", "b", "c", "d", "e", "f", "g", "h", "i", "j", "k", "l", "m", "n", "o", "p", "q", "r", "s", "t", "u", "v", "w", "x", "y", "z", "{", "|", "}", "~">>

Ord(ch) == 31 + (CHOOSE i \in 1..Len(Ascii) : Ascii[i] = ch)

Min(S) == CHOOSE x \in S : \A y \in S : x <= y

\* all sequences over S of length at most n
SeqsUpTo(S, n) == UNION {[1..k -> S] : k \in 0..n}

\* Go slice expressions on a string, with 0-based bounds: x[i:] and x[:i]
From(x, i) == SubSeq(x, i + 1, Len(x))
Upto(x, i) == SubSeq(x, 1, i)

\* bytes.IndexByte: the 0-based index of the first ch in x, or -1
IndexByte(x, ch) ==
    IF \E i \in 1..Len(x) : x[i] = ch
    THEN Min({i \in 1..Len(x) : x[i] = ch}) - 1
    ELSE -1

RECURSIVE Concat(_)
Concat(ss) == IF ss = <<>> THEN <<>> ELSE Head(ss) \o Concat(Tail(ss))

----------------------------------------------------------------------------
(* fillPlaceholders *)

MaxTemplateLen == 5
MaxArgs == 2
TemplateChars == {"{", "}", "a"}
ArgVals == {<<>>, <<"x">>, <<"y", "}">>}
Templates == SeqsUpTo(TemplateChars, MaxTemplateLen)
ArgLists == SeqsUpTo(ArgVals, MaxArgs)

\* one pass through the body of the for loop, on the locals b, buf, argIdx;
\* brk records that the pass left the loop by a break
\* the loop body without the test for a missing "}"
LoopBodyNoOpenCheck(st, as) ==
    LET i == IndexByte(st.b, "{") IN
    IF i = -1 THEN [st EXCEPT !.brk = TRUE]
    ELSE LET buf1 == st.buf \o Upto(st.b, i)
             b1 == From(st.b, i)
             j == IndexByte(b1, "}")
         IN IF j = -1
            THEN [b |-> From(b1, 1), buf |-> buf1 \o as[st.argIdx + 1],
                  argIdx |-> st.argIdx + 1, brk |-> TRUE]
            ELSE [b |-> From(b1, j + 1), buf |-> buf1 \o as[st.argIdx + 1],
                  argIdx |-> st.argIdx + 1, brk |-> FALSE]

\* the loop body without the copy of the text before "{"
LoopBodyDropPrefix(st, as) ==
    LET i == IndexByte(st.b, "{") IN
    IF i = -1 THEN [st EXCEPT !.brk = TRUE]
    ELSE LET b1 == From(st.b, i)
             j == IndexByte(b1, "}")
         IN IF j = -1
            THEN [st EXCEPT !.b = b1, !.brk = TRUE]
            ELSE [b |-> From(b1, j + 1), buf |-> st.buf \o as[st.argIdx + 1],
                  argIdx |-> st.argIdx + 1, brk |-> FALSE]

\* the loop body as written
LoopBody(st, as) ==
    LET i == IndexByte(st.b, "{") IN
    IF i = -1 THEN [st EXCEPT !.brk = TRUE]
    ELSE LET buf1 == st.buf \o Upto(st.b, i)
             b1 == From(st.b, i)
             j == IndexByte(b1, "}")
         IN IF j = -1
            THEN [st EXCEPT !.buf = buf1, !.b = b1, !.brk = TRUE]
            ELSE [b |-> From(b1, j + 1), buf |-> buf1 \o as[st.argIdx + 1],
                  argIdx |-> st.argIdx + 1, brk |-> FALSE]

\* the loop condition of the for statement
LoopCond(st, as) == st.argIdx < Len(as) /\ Len(st.b) > 0

RECURSIVE LoopRun(_, _)
LoopRun(st, as) ==
    IF st.brk \/ ~LoopCond(st, as) THEN st ELSE LoopRun(LoopBody(st, as), as)

\* the statements after the loop: append what is left of b
FillTail(st) == IF Len(st.b) > 0 THEN st.buf \o st.b ELSE st.buf

\* the function as a whole
fillPlaceholders(t, as) ==
    IF Len(t) = 0 \/ Len(as) = 0 THEN t
    ELSE FillTail(LoopRun([b |-> t, buf |-> <<>>, argIdx |-> 0, brk |-> FALSE], as))

FillIdle ==
    /\ fpc = "idle" /\ s = <<>> /\ args = <<>>
    /\ b = <<>> /\ buf = <<>> /\ argIdx = 0 /\ fret = <<>>

FillInit ==
    /\ fpc = "start"
    /\ s \in Templates
    /\ args \in ArgLists
    /\ b = <<>> /\ buf = <<>> /\ argIdx = 0 /\ fret = <<>>

\* lines 149-155: the early return, or the set-up of the locals
FillEnter ==
    /\ FillFrame
    /\ fpc = "start"
    /\ IF Len(s) = 0 \/ Len(args) = 0
       THEN /\ fret' = s
            /\ fpc' = "done"
            /\ UNCHANGED <<b, buf, argIdx>>
       ELSE /\ b' = s
            /\ buf' = <<>>
            /\ argIdx' = 0
            /\ fpc' = "loop"
            /\ UNCHANGED fret
    /\ UNCHANGED <<s, args>>

\* lines 156-168: one iteration of the loop
FillIter ==
    /\ FillFrame
    /\ fpc = "loop"
    /\ LoopCond([b |-> b, argIdx |-> argIdx], args)
    /\ LET st == LoopBody([b |-> b, buf |-> buf, argIdx |-> argIdx, brk |-> FALSE], args)
       IN /\ b' = st.b
          /\ buf' = st.buf
          /\ argIdx' = st.argIdx
          /\ fpc' = IF st.brk THEN "tail" ELSE "loop"
    /\ UNCHANGED <<s, args, fret>>

\* line 156: the loop condition fails
FillLoopEnd ==
    /\ FillFrame
    /\ fpc = "loop"
    /\ ~LoopCond([b |-> b, argIdx |-> argIdx], args)
    /\ fpc' = "tail"
    /\ UNCHANGED <<s, args, b, buf, argIdx, fret>>

\* lines 169-172
FillReturn ==
    /\ FillFrame
    /\ fpc = "tail"
    /\ fret' = FillTail([b |-> b, buf |-> buf])
    /\ fpc' = "done"
    /\ UNCHANGED <<s, args, b, buf, argIdx>>

FillNext == FillEnter \/ FillIter \/ FillLoopEnd \/ FillReturn

----------------------------------------------------------------------------
(* JoinIDs *)

MaxIDs == 3
IDVals == {-7, 0, 42, 123}
IDLists == SeqsUpTo(IDVals, MaxIDs)

Digits == <<"0", "1", "2", "3", "4", "5", "6", "7", "8", "9">>

\* the decimal digits of n >= 0, most significant first
RECURSIVE FormatUint(_)
FormatUint(n) ==
    IF n < 10 THEN <<Digits[n + 1]>>
    ELSE FormatUint(n \div 10) \o <<Digits[(n % 10) + 1]>>

\* strconv.FormatInt(n, 10), which strconv.Itoa and strconv.AppendInt produce
FormatInt(n) == IF n < 0 THEN <<"-">> \o FormatUint(-n) ELSE FormatUint(n)

\* the body of the range loop, for one id
\* the body with the separator written unconditionally
JoinStepAlwaysSep(bf, id) == (bf \o <<";">>) \o FormatInt(id)

\* the body as written
JoinStep(bf, id) ==
    (IF Len(bf) > 0 THEN bf \o <<";">> ELSE bf) \o FormatInt(id)

JoinIdle == jpc = "idle" /\ ids = <<>> /\ jbuf = <<>> /\ jn = 0 /\ jret = <<>>

JoinInit == jpc = "start" /\ ids \in IDLists /\ jbuf = <<>> /\ jn = 0 /\ jret = <<>>

\* lines 177-178
JoinEnter ==
    /\ JoinFrame
    /\ jpc = "start"
    /\ jbuf' = <<>>
    /\ jn' = 0
    /\ jpc' = "loop"
    /\ UNCHANGED <<ids, jret>>

\* lines 179-184: the loop body for the next id
JoinIter ==
    /\ JoinFrame
    /\ jpc = "loop"
    /\ jn < Len(ids)
    /\ jbuf' = JoinStep(jbuf, ids[jn + 1])
    /\ jn' = jn + 1
    /\ UNCHANGED <<jpc, ids, jret>>

\* line 185
JoinReturn ==
    /\ JoinFrame
    /\ jpc = "loop"
    /\ jn = Len(ids)
    /\ jret' = jbuf
    /\ jpc' = "done"
    /\ UNCHANGED <<ids, jbuf, jn>>

JoinNext == JoinEnter \/ JoinIter \/ JoinReturn

----------------------------------------------------------------------------
(* parseResponse: encoding/json on the envelope *)

\* JSON values
JNum(n) == [t |-> "num", n |-> n]
JStr(x) == [t |-> "str", s |-> x]
JBool(x) == [t |-> "bool", b |-> x]
JNull == [t |-> "null"]
JArr(a) == [t |-> "arr", a |-> a]
\* an object: its members, a sequence of name/value pairs in document order
JObj(m) == [t |-> "obj", m |-> m]
Member(k, x) == [key |-> k, val |-> x]

\* the errors of the decoder
ErrUnexpectedEOF == "io.ErrUnexpectedEOF"
UnmarshalTypeError == "json.UnmarshalTypeError"
InvalidUnmarshalError == "json.InvalidUnmarshalError"

\* lines 189-206: the fields of the local struct result other than Items, by
\* their json tag: the Go field and its kind
Tags ==
    [error_id        |-> [field |-> "ErrorID",        kind |-> "int"],
     error_name      |-> [field |-> "ErrorName",      kind |-> "string"],
     error_message   |-> [field |-> "ErrorMessage",   kind |-> "string"],
     page            |-> [field |-> "Page",           kind |-> "int"],
     page_size       |-> [field |-> "PageSize",       kind |-> "int"],
     has_more        |-> [field |-> "HasMore",        kind |-> "bool"],
     backoff         |-> [field |-> "Backoff",        kind |-> "int"],
     quota_max       |-> [field |-> "QuotaMax",       kind |-> "int"],
     quota_remaining |-> [field |-> "QuotaRemaining", kind |-> "int"],
     total           |-> [field |-> "Total",          kind |-> "int"],
     type            |-> [field |-> "Type",           kind |-> "string"]]

SiblingKeys == DOMAIN Tags

\* the zero value of the local struct result (Items apart)
ZeroResult ==
    [ErrorID |-> 0, ErrorName |-> "", ErrorMessage |-> "",
     Page |-> 0, PageSize |-> 0, HasMore |-> FALSE,
     Backoff |-> 0, QuotaMax |-> 0, QuotaRemaining |-> 0,
     Total |-> 0, Type |-> ""]

\* the JSON type a Go kind accepts
Accepts(kind) ==
    CASE kind = "int" -> "num"
      [] kind = "string" -> "str"
      [] kind = "bool" -> "bool"

Payload(x) ==
    CASE x.t = "num" -> x.n
      [] x.t = "str" -> x.s
      [] x.t = "bool" -> x.b

\* json: a literal into a Go int, string or bool: a value of the matching
\* JSON type is stored, null leaves the Go value as it is, and anything else
\* is an UnmarshalTypeError that leaves it as it is as well
StoreScalar(kind, old, x) ==
    IF x.t = Accepts(kind) THEN [val |-> Payload(x), err |-> Nil]
    ELSE IF x.t = "null" THEN [val |-> old, err |-> Nil]
    ELSE [val |-> old, err |-> UnmarshalTypeError]

FirstErr(e1, e2) == IF e1 # Nil THEN e1 ELSE e2

\* The destination's element type in this model: struct{ ID int `json:"id"` }.
ZeroElem == [ID |-> 0]

\* json: the members of an object into an element: "id" goes to ID, other
\* names are skipped, a type error is saved and decoding goes on
RECURSIVE StoreElemMembers(_, _)
StoreElemMembers(st, ms) ==
    IF ms = <<>> THEN st
    ELSE LET m == Head(ms) IN
         IF m.key = "id"
         THEN LET d == StoreScalar("int", st.val.ID, m.val)
              IN StoreElemMembers([val |-> [ID |-> d.val],
                                   err |-> FirstErr(st.err, d.err)], Tail(ms))
         ELSE StoreElemMembers(st, Tail(ms))

\* json: one array element into a slice slot holding old
StoreElem(old, x) ==
    IF x.t = "obj" THEN StoreElemMembers([val |-> old, err |-> Nil], x.m)
    ELSE IF x.t = "null" THEN [val |-> old, err |-> Nil]
    ELSE [val |-> old, err |-> UnmarshalTypeError]

\* json: an array into a slice whose backing array holds prior: slot i is
\* decoded in place when the backing array has it and starts zero otherwise;
\* the slice ends with one element per array element
RECURSIVE StoreSlice(_, _, _)
StoreSlice(prior, a, i) ==
    IF i > Len(a) THEN [elems |-> <<>>, err |-> Nil]
    ELSE LET slot == IF i <= Len(prior) THEN prior[i] ELSE ZeroElem
             d == StoreElem(slot, a[i])
             rest == StoreSlice(prior, a, i + 1)
         IN [elems |-> <<d.val>> \o rest.elems, err |-> FirstErr(d.err, rest.err)]

\* json.Unmarshal(data, val): val must be a non-nil pointer; here a pointer to
\* a slice of the element type
Unmarshal(data, val) ==
    IF val.kind # "ptr" THEN [v |-> val, err |-> InvalidUnmarshalError]
    ELSE IF data.t = "arr"
         THEN LET d == StoreSlice(val.elems, data.a, 1)
              IN [v |-> [kind |-> "ptr", elems |-> d.elems], err |-> d.err]
    ELSE IF data.t = "null" THEN [v |-> [kind |-> "ptr", elems |-> <<>>], err |-> Nil]
    ELSE [v |-> val, err |-> UnmarshalTypeError]

\* lines 230-232: items.UnmarshalJSON
\* (a variant that drops the error of json.Unmarshal)
UnmarshalJSONIgnoreErr(i, data) == [v |-> Unmarshal(data, i.val).v, err |-> Nil]

UnmarshalJSON(i, data) == Unmarshal(data, i.val)

\* json: the members of the envelope into result, in document order.  The
\* member "items" is handed to result.Items, an Unmarshaler, whose error ends
\* the decoding at once; a type error on another member is saved and the
\* decoding goes on.  st.Items is the adapter items{v}.
RECURSIVE DecodeMembers(_, _)
DecodeMembers(st, ms) ==
    IF ms = <<>> \/ st.abort # Nil THEN st
    ELSE LET m == Head(ms) IN
         IF m.key = "items"
         THEN LET u == UnmarshalJSON(st.Items, m.val)
              IN DecodeMembers([st EXCEPT !.Items = [val |-> u.v], !.abort = u.err],
                               Tail(ms))
         ELSE LET tag == Tags[m.key]
                  d == StoreScalar(tag.kind, st.result[tag.field], m.val)
              IN DecodeMembers([st EXCEPT !.result[tag.field] = d.val,
                                          !.saved = FirstErr(st.saved, d.err)],
                               Tail(ms))

\* line 208: json.NewDecoder(r).Decode(&result), with result.Items = items{v}.
\* The decoder reads one whole value from the reader before it decodes any of
\* it, so a document cut short gives the reader's error and changes nothing.
Decode(doc, val) ==
    IF ~doc.wellFormed
    THEN [result |-> ZeroResult, v |-> val, err |-> ErrUnexpectedEOF]
    ELSE LET st == DecodeMembers([result |-> ZeroResult, Items |-> [val |-> val],
                                  saved |-> Nil, abort |-> Nil], doc.members)
         IN [result |-> st.result, v |-> st.Items.val,
             err |-> FirstErr(st.abort, st.saved)]

\* lines 209-223: the Wrapper built from result
\* (a variant with Page/PageSize and Name/Message crossed)
MakeWrapperSwapped(result) ==
    [Error |-> [ID |-> result.ErrorID, Name |-> result.ErrorMessage,
                Message |-> result.ErrorName],
     Page |-> result.PageSize,
     PageSize |-> result.Page,
     HasMore |-> result.HasMore,
     Backoff |-> result.Backoff,
     QuotaMax |-> result.QuotaMax,
     QuotaRemaining |-> result.QuotaRemaining,
     Total |-> result.Total,
     Type |-> result.Type]

MakeWrapper(result) ==
    [Error |-> [ID |-> result.ErrorID, Name |-> result.ErrorName,
                Message |-> result.ErrorMessage],
     Page |-> result.Page,
     PageSize |-> result.PageSize,
     HasMore |-> result.HasMore,
     Backoff |-> result.Backoff,
     QuotaMax |-> result.QuotaMax,
     QuotaRemaining |-> result.QuotaRemaining,
     Total |-> result.Total,
     Type |-> result.Type]

\* a variant that reports a non-zero error_id as the returned error
parseResponseApiErr(doc, val) ==
    LET d == Decode(doc, val)
    IN [wrapper |-> Ref(MakeWrapper(d.result)),
        err |-> IF d.result.ErrorID # 0 THEN "api error" ELSE d.err, v |-> d.v]

\* lines 188-224: the function as a whole: the Wrapper returned (a pointer),
\* the error returned, and the destination as the call leaves it
parseResponse(doc, val) ==
    LET d == Decode(doc, val)
    IN [wrapper |-> Ref(MakeWrapper(d.result)), err |-> d.err, v |-> d.v]

----------------------------------------------------------------------------
(* The documents and destinations parseResponse is run on *)

MaxMembers == 3

\* values of the JSON type the member's Go field takes
GoodValues(k) ==
    CASE k = "items" ->
            {JArr(<<>>),
             JArr(<<JObj(<<Member("id", JNum(1))>>)>>),
             JArr(<<JObj(<<Member("id", JNum(1))>>), JObj(<<Member("id", JNum(2))>>)>>),
             JArr(<<JObj(<<>>), JObj(<<Member("id", JNum(2)), Member("title", JStr("t"))>>)>>)}
      [] k = "error_id" -> {JNum(400)}
      [] k = "error_name" -> {JStr("bad_parameter")}
      [] k = "has_more" -> {JBool(TRUE), JBool(FALSE)}
      [] k = "page_size" -> {JNum(30)}
      [] k = "quota_max" -> {JNum(300)}
      [] k = "quota_remaining" -> {JNum(299)}
      [] k = "total" -> {JNum(2)}
      [] OTHER -> IF Tags[k].kind = "int" THEN {JNum(1)} ELSE {JStr("x")}

\* null, and values of another JSON type
OddValues(k) ==
    CASE k = "items" ->
            {JNull, JNum(1),
             JArr(<<JObj(<<Member("id", JStr("x"))>>), JObj(<<Member("id", JNum(2))>>)>>),
             JArr(<<JNum(5)>>)}
      [] OTHER -> {JNull, IF Tags[k].kind = "string" THEN JNum(1) ELSE JStr("x")}

Keys == SiblingKeys \cup {"items"}

IsGood(m) == m.val \in GoodValues(m.key)

AllMembers ==
    UNION {{Member(key, x) : x \in GoodValues(key) \cup OddValues(key)} : key \in Keys}

\* destinations: a pointer to a slice that already holds an element, and a
\* nil interface value
Dests == {[kind |-> "ptr", elems |-> <<[ID |-> 9]>>], [kind |-> "nil", elems |-> <<>>]}

ParseIdle ==
    /\ ppc = "idle" /\ r = [wellFormed |-> TRUE, members |-> <<>>]
    /\ v = [kind |-> "nil", elems |-> <<>>] /\ wrapper = NilPtr /\ perr = Nil

\* the reader holds an object with no member yet
ParseInit ==
    /\ ppc = "body"
    /\ r = [wellFormed |-> TRUE, members |-> <<>>]
    /\ v = [kind |-> "nil", elems |-> <<>>]
    /\ wrapper = NilPtr
    /\ perr = Nil

\* line 188, the reader r: the document on it gets one more member, with a
\* name not yet in it, and with at most one odd value in the whole document
BodyMember ==
    /\ ParseFrame
    /\ ppc = "body"
    /\ Len(r.members) < MaxMembers
    /\ \E m \in AllMembers :
          /\ \A i \in 1..Len(r.members) : r.members[i].key # m.key
          /\ IsGood(m) \/ \A i \in 1..Len(r.members) : IsGood(r.members[i])
          /\ r' = [r EXCEPT !.members = Append(@, m)]
    /\ UNCHANGED <<ppc, v, wrapper, perr>>

\* line 188: the call, with the document whole on the reader or cut short
\* after the members it has (then it holds fewer whole members), and with the
\* caller's destination
ParseCall ==
    /\ ParseFrame
    /\ ppc = "body"
    /\ \E cut \in BOOLEAN :
          /\ cut => Len(r.members) < MaxMembers
          /\ r' = [r EXCEPT !.wellFormed = ~cut]
    /\ v' \in Dests
    /\ ppc' = "start"
    /\ UNCHANGED <<wrapper, perr>>

\* lines 188-224
ParseResponse ==
    /\ ParseFrame
    /\ ppc = "start"
    /\ LET out == parseResponse(r, v)
       IN /\ wrapper' = out.wrapper
          /\ perr' = out.err
          /\ v' = out.v
    /\ ppc' = "done"
    /\ UNCHANGED r

ParseNext == BodyMember \/ ParseCall \/ ParseResponse

----------------------------------------------------------------------------
(* Client.Do: the request *)

\* line 20
Version == <<"2", ".", "1">>
\* line 17
Root == <<"h", "t", "t", "p", "s", ":", "/", "/", "a", "p", "i", ".", "s", "t", "a", "c", "k", "e", "x", "c", "h", "a", "n", "g", "e", ".", "c", "o", "m", "/">> \o Version

\* lines 39-46 (some of the paths)
PathAllAnswers == <<"/", "a", "n", "s", "w", "e", "r", "s">>
PathQuestionAnswers == <<"/", "q", "u", "e", "s", "t", "i", "o", "n", "s", "/", "{", "i", "d", "s", "}", "/", "a", "n", "s", "w", "e", "r", "s">>

\* the names of the query parameters
KSite == <<"s", "i", "t", "e">>
KSort == <<"s", "o", "r", "t">>
KOrder == <<"o", "r", "d", "e", "r">>
KPage == <<"p", "a", "g", "e">>
KPageSize == <<"p", "a", "g", "e", "s", "i", "z", "e">>
KFilter == <<"f", "i", "l", "t", "e", "r">>
KTagged == <<"t", "a", "g", "g", "e", "d">>
KAccessToken == <<"a", "c", "c", "e", "s", "s", "_", "t", "o", "k", "e", "n">>
KKey == <<"k", "e", "y">>

\* url.Values is a map from names to lists of values.
\* url.Values.Set: the name gets the one value
Set(m, k, x) == [kk \in DOMAIN m \cup {k} |-> IF kk = k THEN <<x>> ELSE m[kk]]

SetIf(cond, m, k, x) == IF cond THEN Set(m, k, x) ELSE m

\* lines 67-90: Params.values, on a non-nil receiver p
\* (a variant that treats site like the other strings)
valuesSkipsEmptySite(p) ==
    LET v0 == IF Deref(p).Site # <<>> THEN (KSite :> <<Deref(p).Site>>) ELSE <<>>
        v1 == SetIf(Deref(p).Sort # <<>>, v0, KSort, Deref(p).Sort)
        v2 == SetIf(Deref(p).Order # <<>>, v1, KOrder, Deref(p).Order)
        v3 == SetIf(Deref(p).Page # 0, v2, KPage, FormatInt(Deref(p).Page))
        v4 == SetIf(Deref(p).PageSize # 0, v3, KPageSize, FormatInt(Deref(p).PageSize))
        v5 == SetIf(Deref(p).Filter # <<>>, v4, KFilter, Deref(p).Filter)
    IN SetIf(Deref(p).Tagged # <<>>, v5, KTagged, Deref(p).Tagged)

values(p) ==
    LET v0 == (KSite :> <<Deref(p).Site>>)
        v1 == SetIf(Deref(p).Sort # <<>>, v0, KSort, Deref(p).Sort)
        v2 == SetIf(Deref(p).Order # <<>>, v1, KOrder, Deref(p).Order)
        v3 == SetIf(Deref(p).Page # 0, v2, KPage, FormatInt(Deref(p).Page))
        v4 == SetIf(Deref(p).PageSize # 0, v3, KPageSize, FormatInt(Deref(p).PageSize))
        v5 == SetIf(Deref(p).Filter # <<>>, v4, KFilter, Deref(p).Filter)
    IN SetIf(Deref(p).Tagged # <<>>, v5, KTagged, Deref(p).Tagged)

\* lines 125-131: the parameters, then the credentials of a non-nil client
BuildVals(cl, p) ==
    LET v0 == values(p)
        v1 == SetIf(cl # NilPtr /\ Deref(cl).AccessToken # <<>>, v0,
                    KAccessToken, Deref(cl).AccessToken)
    IN SetIf(cl # NilPtr /\ Deref(cl).Key # <<>>, v1, KKey, Deref(cl).Key)

\* byte-wise order on strings, as Go's < on strings
RECURSIVE StrLess(_, _)
StrLess(x, y) ==
    IF y = <<>> THEN FALSE
    ELSE IF x = <<>> THEN TRUE
    ELSE IF x[1] # y[1] THEN Ord(x[1]) < Ord(y[1])
    ELSE StrLess(Tail(x), Tail(y))

\* slices.Sort on a set of distinct strings
RECURSIVE SortStrings(_)
SortStrings(S) ==
    IF S = {} THEN <<>>
    ELSE LET m == CHOOSE x \in S : \A y \in S \ {x} : StrLess(x, y)
         IN <<m>> \o SortStrings(S \ {m})

HexDigits == <<"0", "1", "2", "3", "4", "5", "6", "7", "8", "9",
               "A", "B", "C", "D", "E", "F">>

Letters == {Ascii[i] : i \in {n \in 1..Len(Ascii) :
                                 \/ 48 <= n + 31 /\ n + 31 <= 57
                                 \/ 65 <= n + 31 /\ n + 31 <= 90
                                 \/ 97 <= n + 31 /\ n + 31 <= 122}}

\* net/url shouldEscape in query-component mode: letters, digits and - _ . ~
\* are kept
ShouldEscape(ch) == ch \notin Letters \cup {"-", "_", ".", "~"}

\* url.QueryEscape
RECURSIVE QueryEscape(_)
QueryEscape(x) ==
    IF x = <<>> THEN <<>>
    ELSE (IF x[1] = " " THEN <<"+">>
          ELSE IF ShouldEscape(x[1])
               THEN <<"%", HexDigits[(Ord(x[1]) \div 16) + 1], HexDigits[(Ord(x[1]) % 16) + 1]>>
               ELSE <<x[1]>>)
         \o QueryEscape(Tail(x))

\* one name of url.Values.Encode: name=value for each of its values, each
\* after an "&" unless the buffer is empty
RECURSIVE EncodeValues(_, _, _)
EncodeValues(bf, k, xs) ==
    IF xs = <<>> THEN bf
    ELSE EncodeValues((IF Len(bf) > 0 THEN bf \o <<"&">> ELSE bf)
                          \o QueryEscape(k) \o <<"=">> \o QueryEscape(Head(xs)),
                      k, Tail(xs))

RECURSIVE EncodeKeys(_, _, _)
EncodeKeys(bf, m, ks) ==
    IF ks = <<>> THEN bf
    ELSE EncodeKeys(EncodeValues(bf, Head(ks), m[Head(ks)]), m, Tail(ks))

\* url.Values.Encode: the names in sorted order
Encode(m) == EncodeKeys(<<>>, m, SortStrings(DOMAIN m))

\* lines 119-122
\* (a variant that always takes the constant)
RootOfIgnoresClient(cl) == Root

RootOf(cl) == IF cl # NilPtr /\ Deref(cl).Root # <<>> THEN Deref(cl).Root ELSE Root

\* lines 115-118
ClientOf(cl) ==
    IF cl # NilPtr /\ Deref(cl).Client # "nil" THEN Deref(cl).Client
    ELSE "http.DefaultClient"

\* line 133
Req(rt, pth, p, m) == rt \o fillPlaceholders(pth, Deref(p).Args) \o <<"?">> \o Encode(m)

\* the inputs of Do
Clients ==
    {NilPtr} \cup
    {Ref([Client |-> hc, Root |-> rt, AccessToken |-> at, Key |-> ky]) :
        hc \in {"nil", "custom"},
        rt \in {<<>>, <<"h", "t", "t", "p", ":", "/", "/", "h", "/", "2">>},
        at \in {<<>>, <<"a", " ", "b">>},
        ky \in {<<>>, <<"k", "=", "1", "&", "x">>}}

ParamSets ==
    [Site : {<<>>, <<"s", "o">>},
     Sort : {<<>>, <<"v", "o", "t", "e", "s">>},
     Order : {<<>>, <<"d", "e", "s", "c">>},
     Page : {0, 7, -12},
     PageSize : {0, 30},
     Filter : {<<>>, <<"!", "-", "a">>},
     Tagged : {<<>>, <<"g", "o", ";", "c", "#">>},
     Args : {<<>>, <<<<"1", ";", "2">>>>, <<<<"3">>, <<"4">>>>}]

\* params is a pointer, and may be nil
ParamPtrs == {NilPtr} \cup {Ref(p) : p \in ParamSets}

Paths == {PathAllAnswers, PathQuestionAnswers}

\* what the transport may answer: an error, or a response with a body
TransportErrs == {"dial tcp: no route to host", "tls: handshake failure"}

Bodies ==
    {[wellFormed |-> TRUE,
      members |-> <<Member("items", JArr(<<JObj(<<Member("id", JNum(1))>>)>>)),
                    Member("page", JNum(1)), Member("has_more", JBool(FALSE))>>],
     [wellFormed |-> TRUE,
      members |-> <<Member("error_id", JNum(400)),
                    Member("items", JArr(<<JObj(<<Member("id", JStr("x"))>>)>>))>>],
     [wellFormed |-> FALSE, members |-> <<Member("page", JNum(1))>>]}

DoDest == [kind |-> "ptr", elems |-> <<[ID |-> 9]>>]

DoIdle ==
    /\ pc = "idle" /\ c = NilPtr /\ path = <<>>
    /\ params = NilPtr
    /\ dv = DoDest /\ client = "nil" /\ root = <<>> /\ vals = <<>> /\ req = <<>>
    /\ resp = NilPtr /\ err = Nil /\ wret = NilPtr /\ eret = Nil /\ log = <<>>

DoInit ==
    /\ pc = "start"
    /\ c \in Clients
    /\ path \in Paths
    /\ params \in ParamPtrs
    /\ dv = DoDest /\ client = "nil" /\ root = <<>> /\ vals = <<>> /\ req = <<>>
    /\ resp = NilPtr /\ err = Nil /\ wret = NilPtr /\ eret = Nil /\ log = <<>>

\* lines 125 and 69: params.values() on a nil params reads p.Site through a
\* nil pointer: the call panics before anything is sent
DoPanic ==
    /\ DoFrame
    /\ pc = "start"
    /\ params = NilPtr
    /\ pc' = "panic"
    /\ UNCHANGED <<c, path, params, dv, client, root, vals, req, resp, err, wret, eret, log>>

\* lines 114-136: the client, the root, the query parameters and the URL
DoBuild ==
    /\ DoFrame
    /\ pc = "start"
    /\ params # NilPtr
    /\ client' = ClientOf(c)
    /\ root' = RootOf(c)
    /\ vals' = BuildVals(c, params)
    /\ req' = Req(RootOf(c), path, params, BuildVals(c, params))
    /\ pc' = "get"
    /\ UNCHANGED <<c, path, params, dv, resp, err, wret, eret, log>>

\* line 138: client.Get(req); the transport answers with an error or with a
\* response whose body is open
DoGet ==
    /\ DoFrame
    /\ pc = "get"
    /\ log' = Append(log, [ev |-> "GET", client |-> client, url |-> req])
    /\ \/ \E e \in TransportErrs :
             /\ err' = e
             /\ resp' = NilPtr
             /\ pc' = "fail"
       \/ \E d \in Bodies :
             /\ err' = Nil
             /\ resp' = Ref([Body |-> d, closed |-> 0])
             /\ pc' = "parse"
    /\ UNCHANGED <<c, path, params, dv, client, root, vals, req, wret, eret>>

\* a variant of lines 139-141 that sends the request again
DoRetryOnErr ==
    /\ DoFrame
    /\ pc = "fail"
    /\ Len(log) < 3
    /\ pc' = "get"
    /\ UNCHANGED <<c, path, params, dv, client, root, vals, req, resp, err, wret, eret, log>>

\* lines 139-141: return nil, err
DoReturnErr ==
    /\ DoFrame
    /\ pc = "fail"
    /\ wret' = NilPtr
    /\ eret' = err
    /\ log' = Append(log, [ev |-> "return"])
    /\ pc' = "done"
    /\ UNCHANGED <<c, path, params, dv, client, root, vals, req, resp, err>>

\* line 145: the operands of the return statement: parseResponse(resp.Body, v)
DoParse ==
    /\ DoFrame
    /\ pc = "parse"
    /\ LET out == parseResponse(Deref(resp).Body, dv)
       IN /\ wret' = out.wrapper
          /\ eret' = out.err
          /\ dv' = out.v
    /\ log' = Append(log, [ev |-> "decode"])
    /\ pc' = "deferred"
    /\ UNCHANGED <<c, path, params, client, root, vals, req, resp, err>>

\* a variant of line 142 that closes the body only after a clean decode
DoCloseOnlyOnSuccess ==
    /\ DoFrame
    /\ pc = "deferred"
    /\ IF eret = Nil
       THEN /\ resp' = Ref([Deref(resp) EXCEPT !.closed = @ + 1])
            /\ log' = Append(log, [ev |-> "close"])
       ELSE UNCHANGED <<resp, log>>
    /\ pc' = "return"
    /\ UNCHANGED <<c, path, params, dv, client, root, vals, req, err, wret, eret>>

\* line 142: the deferred resp.Body.Close(), run as the function returns
DoClose ==
    /\ DoFrame
    /\ pc = "deferred"
    /\ resp' = Ref([Deref(resp) EXCEPT !.closed = @ + 1])
    /\ log' = Append(log, [ev |-> "close"])
    /\ pc' = "return"
    /\ UNCHANGED <<c, path, params, dv, client, root, vals, req, err, wret, eret>>

\* line 145: the caller gets the results
DoReturn ==
    /\ DoFrame
    /\ pc = "return"
    /\ log' = Append(log, [ev |-> "return"])
    /\ pc' = "done"
    /\ UNCHANGED <<c, path, params, dv, client, root, vals, req, resp, err, wret, eret>>

DoNext == DoPanic \/ DoBuild \/ DoGet \/ DoReturnErr \/ DoParse \/ DoClose \/ DoReturn

----------------------------------------------------------------------------
(* Specifications *)

InitFill == FillInit /\ JoinIdle /\ ParseIdle /\ DoIdle
SpecFill == InitFill /\ [][FillNext]_vars

InitJoin == JoinInit /\ FillIdle /\ ParseIdle /\ DoIdle
SpecJoin == InitJoin /\ [][JoinNext]_vars

InitParse == ParseInit /\ FillIdle /\ JoinIdle /\ DoIdle
SpecParse == InitParse /\ [][ParseNext]_vars

InitDo == DoInit /\ FillIdle /\ JoinIdle /\ ParseIdle
SpecDo == InitDo /\ [][DoNext]_vars

----------------------------------------------------------------------------
(* Placeholders of a template, described by position *)

\* the placeholders of t at or after position from, left to right: each is a
\* "{" that has a "}" after it, together with everything up to the first such "}"
RECURSIVE Spans(_, _)
Spans(t, from) ==
    LET opens == {i \in from..Len(t) :
                     t[i] = "{" /\ \E j \in (i + 1)..Len(t) : t[j] = "}"}
    IN IF opens = {} THEN <<>>
       ELSE LET lo == Min(opens)
                hi == Min({j \in (lo + 1)..Len(t) : t[j] = "}"})
            IN <<[lo |-> lo, hi |-> hi]>> \o Spans(t, hi + 1)

\* the position after the k-th placeholder (after none: the start)
After(sp, k) == IF k = 0 THEN 1 ELSE sp[k].hi + 1

\* t with its first n placeholders replaced by as[1..n] and the rest left as is
Substituted(t, as, n) ==
    LET sp == Spans(t, 1) IN
    Concat([k \in 1..n |-> SubSeq(t, After(sp, k - 1), sp[k].lo - 1) \o as[k]])
        \o SubSeq(t, After(sp, n), Len(t))

NumPlaceholders(t) == Len(Spans(t, 1))

Smaller(x, y) == IF x <= y THEN x ELSE y

\* the position of the first "{" after the last placeholder (it has no "}"
\* after it), or 0 when there is none
Dangling(t) ==
    LET sp == Spans(t, 1)
        opens == {i \in After(sp, Len(sp))..Len(t) : t[i] = "{"}
    IN IF opens = {} THEN 0 ELSE Min(opens)

RECURSIVE SumLen(_)
SumLen(ss) == IF ss = <<>> THEN 0 ELSE Len(Head(ss)) + SumLen(Tail(ss))

\* C1: fillPlaceholders replaces the first min(A, P) placeholders of the
\* template, the N-th by the N-th argument, and copies everything else (the
\* text outside placeholders, and the placeholders beyond the A-th) unchanged
\* and in order; arguments beyond the P-th are ignored, and with no arguments
\* the template is returned unchanged.
C1_FillSubstitutes ==
    fpc = "done" =>
        /\ fret = Substituted(s, args, Smaller(Len(args), NumPlaceholders(s)))
        /\ (Len(args) = 0 => fret = s)

\* a run with two placeholders and one argument, and one placeholder left as is
C1_Witness ==
    /\ fpc = "done"
    /\ NumPlaceholders(s) = 2
    /\ Len(args) = 1
    /\ fret # s
    /\ \E i \in 1..Len(fret) : fret[i] = "{"

\* C10: when the scan reaches a "{" with no "}" after it while arguments are
\* still unused, it stops: no argument is consumed for it (exactly one per
\* placeholder before it has been), the text from that "{" to the end is what
\* is left to copy, the text before it has been copied once with its
\* placeholders replaced, and the result is that followed by the rest.  A
\* template with no placeholder at all comes back unchanged.
C10_DanglingBrace ==
    /\ (fpc \in {"tail", "done"} /\ Dangling(s) # 0 /\ Len(args) > NumPlaceholders(s)) =>
          LET p == NumPlaceholders(s)
              u == Dangling(s)
              sp == Spans(s, 1)
          IN /\ argIdx = p
             /\ b = SubSeq(s, u, Len(s))
             /\ buf = Substituted(SubSeq(s, 1, u - 1), args, p)
             /\ Len(buf) + Len(b) =
                   Len(s) - SumLen([k \in 1..p |-> SubSeq(s, sp[k].lo, sp[k].hi)])
                          + SumLen(SubSeq(args, 1, p))
             /\ (fpc = "done" => fret = buf \o b)
    /\ (fpc = "done" /\ NumPlaceholders(s) = 0) => fret = s

\* a run that replaced a placeholder and then stopped at a dangling "{" with
\* an argument to spare
C10_Witness ==
    /\ fpc = "done"
    /\ Dangling(s) # 0
    /\ NumPlaceholders(s) = 1
    /\ Len(args) = 2
    /\ argIdx = 1

----------------------------------------------------------------------------
(* Reading a list of IDs back *)

\* the pieces of x between occurrences of sep
RECURSIVE Split(_, _)
Split(x, sep) ==
    LET i == IndexByte(x, sep) IN
    IF i = -1 THEN <<x>> ELSE <<Upto(x, i)>> \o Split(From(x, i + 1), sep)

DigitVal(ch) == (CHOOSE i \in 1..10 : Digits[i] = ch) - 1

RECURSIVE ParseUint(_)
ParseUint(x) ==
    IF Len(x) = 1 THEN DigitVal(x[1])
    ELSE 10 * ParseUint(Upto(x, Len(x) - 1)) + DigitVal(x[Len(x)])

\* x is a decimal numeral in its shortest form: an optional minus sign, then
\* digits with no leading zero (or the single digit 0)
IsDecimal(x) ==
    LET d == IF x # <<>> /\ x[1] = "-" THEN Tail(x) ELSE x IN
    /\ d # <<>>
    /\ \A i \in 1..Len(d) : \E k \in 1..10 : Digits[k] = d[i]
    /\ (Len(d) > 1 => d[1] # "0")
    /\ (x[1] = "-" => d # <<"0">>)

ParseInt(x) == IF x[1] = "-" THEN 0 - ParseUint(Tail(x)) ELSE ParseUint(x)

\* C4: JoinIDs gives the base-10 numerals of the IDs in input order, one ";"
\* between consecutive ones and none at either end; the empty list gives the
\* empty string and a single ID gives its numeral alone.
C4_JoinIDs ==
    jpc = "done" =>
        IF ids = <<>> THEN jret = <<>>
        ELSE LET pieces == Split(jret, ";") IN
             /\ Len(pieces) = Len(ids)
             /\ \A k \in 1..Len(ids) :
                   IsDecimal(pieces[k]) /\ ParseInt(pieces[k]) = ids[k]
             /\ (Len(ids) = 1 => jret = FormatInt(ids[1]))

\* three IDs joined, a negative and a multi-digit one among them
C4_Witness ==
    /\ jpc = "done"
    /\ ids = <<42, -7, 123>>
    /\ jret = <<"4", "2", ";", "-", "7", ";", "1", "2", "3">>

----------------------------------------------------------------------------
(* Reading an envelope document *)

Has(doc, k) == \E i \in 1..Len(doc.members) : doc.members[i].key = k

ValueOf(doc, k) ==
    doc.members[CHOOSE i \in 1..Len(doc.members) : doc.members[i].key = k].val

\* the JSON type each envelope member is documented to have
DocType(k) ==
    CASE k \in {"error_id", "page", "page_size", "backoff", "quota_max",
                "quota_remaining", "total"} -> "num"
      [] k \in {"error_name", "error_message", "type"} -> "str"
      [] k = "has_more" -> "bool"
      [] k = "items" -> "arr"

\* an item that fits the element type: an object whose "id", if any, is a number
ItemFits(x) ==
    /\ x.t = "obj"
    /\ \A i \in 1..Len(x.m) : x.m[i].key = "id" => x.m[i].val.t = "num"

\* a whole document whose members have their documented types and whose items
\* fit the element type of the destination, a pointer to a slice
WellFormedMatching(doc, val) ==
    /\ doc.wellFormed
    /\ val.kind = "ptr"
    /\ \A i \in 1..Len(doc.members) :
          LET m == doc.members[i] IN
          /\ m.val.t = DocType(m.key)
          /\ m.key = "items" => \A j \in 1..Len(m.val.a) : ItemFits(m.val.a[j])

\* the field of the returned Wrapper that belongs to a sibling member
WrapperField(w, k) ==
    CASE k = "page" -> w.Page
      [] k = "page_size" -> w.PageSize
      [] k = "has_more" -> w.HasMore
      [] k = "backoff" -> w.Backoff
      [] k = "quota_max" -> w.QuotaMax
      [] k = "quota_remaining" -> w.QuotaRemaining
      [] k = "total" -> w.Total
      [] k = "type" -> w.Type

ZeroOf(k) ==
    CASE DocType(k) = "num" -> 0
      [] DocType(k) = "str" -> ""
      [] DocType(k) = "bool" -> FALSE

\* C5: on a well-formed envelope whose items fit the destination, the error
\* is nil, the destination holds one element per item, in order, with the
\* item's id (and is left as it was when the document has no items); the
\* returned envelope has no items of its own, and each of page, page_size,
\* has_more, backoff, quota_max, quota_remaining, total and type has the
\* document's value when the document has the member and is zero otherwise.
C5_ItemsAndSiblings ==
    (ppc = "done" /\ WellFormedMatching(r, v)) =>
        /\ perr = Nil
        /\ wrapper # NilPtr
        /\ DOMAIN Deref(wrapper) =
              {"Error", "Page", "PageSize", "HasMore", "Backoff", "QuotaMax",
               "QuotaRemaining", "Total", "Type"}
        /\ IF Has(r, "items")
           THEN LET a == ValueOf(r, "items").a IN
                /\ Len(v.elems) = Len(a)
                /\ \A j \in 1..Len(a) : \A i \in 1..Len(a[j].m) :
                      a[j].m[i].key = "id" => v.elems[j].ID = a[j].m[i].val.n
           ELSE v \in Dests
        /\ \A k \in {"page", "page_size", "has_more", "backoff", "quota_max",
                     "quota_remaining", "total", "type"} :
              WrapperField(Deref(wrapper), k) =
                 IF Has(r, k) THEN Payload(ValueOf(r, k)) ELSE ZeroOf(k)

\* {"items":[{"id":1}],"page":1,"has_more":false} decoded
C5_Witness ==
    /\ ppc = "done"
    /\ r = [wellFormed |-> TRUE,
            members |-> <<Member("items", JArr(<<JObj(<<Member("id", JNum(1))>>)>>)),
                          Member("page", JNum(1)),
                          Member("has_more", JBool(FALSE))>>]
    /\ v = [kind |-> "ptr", elems |-> <<[ID |-> 1]>>]
    /\ Deref(wrapper).Page = 1
    /\ Deref(wrapper).HasMore = FALSE
    /\ perr = Nil

\* C6: an error reported by the API inside a well-formed envelope is no
\* decode failure: the error returned is nil and the envelope's error
\* descriptor has the document's error_id, error_name and error_message; each
\* of them the document lacks is zero or empty.
C6_ApiErrorIsNoDecodeError ==
    (ppc = "done" /\ WellFormedMatching(r, v)) =>
        /\ perr = Nil
        /\ Deref(wrapper).Error.ID =
              (IF Has(r, "error_id") THEN ValueOf(r, "error_id").n ELSE 0)
        /\ Deref(wrapper).Error.Name =
              (IF Has(r, "error_name") THEN ValueOf(r, "error_name").s ELSE "")
        /\ Deref(wrapper).Error.Message =
              (IF Has(r, "error_message") THEN ValueOf(r, "error_message").s ELSE "")

\* "error_id":400,"error_name":"bad_parameter","error_message":"x" decoded
C6_Witness ==
    /\ ppc = "done"
    /\ r.wellFormed
    /\ v.kind = "ptr"
    /\ Has(r, "error_id") /\ Has(r, "error_name") /\ Has(r, "error_message")
    /\ Deref(wrapper).Error = [ID |-> 400, Name |-> "bad_parameter", Message |-> "x"]
    /\ perr = Nil

\* an item of a shape the element type cannot take: no object, or an object
\* whose "id" is neither a number nor null
ItemMismatch(doc) ==
    /\ doc.wellFormed
    /\ Has(doc, "items")
    /\ ValueOf(doc, "items").t = "arr"
    /\ \E j \in 1..Len(ValueOf(doc, "items").a) :
          LET x == ValueOf(doc, "items").a[j] IN
          \/ x.t \notin {"obj", "null"}
          \/ x.t = "obj" /\ \E i \in 1..Len(x.m) :
                x.m[i].key = "id" /\ x.m[i].val.t \notin {"num", "null"}

\* C7: parseResponse never returns a nil envelope, and on a document cut
\* short or with an item the element type cannot take it returns a non-nil
\* error beside the envelope.
C7_EnvelopeAlwaysReturned ==
    ppc = "done" =>
        /\ wrapper # NilPtr
        /\ (~r.wellFormed \/ ItemMismatch(r)) => perr # Nil

\* a document with a member before an item of the wrong shape: the error and
\* an envelope holding the member
C7_Witness ==
    /\ ppc = "done"
    /\ ItemMismatch(r)
    /\ r.members[1].key = "page"
    /\ perr = UnmarshalTypeError
    /\ wrapper # NilPtr
    /\ Deref(wrapper).Page = 1

----------------------------------------------------------------------------
(* Reading a request URL back *)

HexVal(ch) == (CHOOSE i \in 1..16 : HexDigits[i] = ch) - 1

Chr(n) == Ascii[n - 31]

\* the string a query component stands for: "+" is a space, %XX is the byte XX
RECURSIVE Unescape(_)
Unescape(x) ==
    IF x = <<>> THEN <<>>
    ELSE IF x[1] = "+" THEN <<" ">> \o Unescape(Tail(x))
    ELSE IF x[1] = "%"
         THEN <<Chr(16 * HexVal(x[2]) + HexVal(x[3]))>> \o Unescape(SubSeq(x, 4, Len(x)))
    ELSE <<x[1]>> \o Unescape(Tail(x))

Only(cond, k) == IF cond THEN {k} ELSE {}

\* the parameters a request is documented to carry
ExpectedKeys ==
    {KSite}
    \cup Only(Deref(params).Sort # <<>>, KSort)
    \cup Only(Deref(params).Order # <<>>, KOrder)
    \cup Only(Deref(params).Filter # <<>>, KFilter)
    \cup Only(Deref(params).Tagged # <<>>, KTagged)
    \cup Only(Deref(params).Page # 0, KPage)
    \cup Only(Deref(params).PageSize # 0, KPageSize)
    \cup Only(c # NilPtr /\ Deref(c).AccessToken # <<>>, KAccessToken)
    \cup Only(c # NilPtr /\ Deref(c).Key # <<>>, KKey)

ExpectedValue(k) ==
    CASE k = KSite -> Deref(params).Site
      [] k = KSort -> Deref(params).Sort
      [] k = KOrder -> Deref(params).Order
      [] k = KFilter -> Deref(params).Filter
      [] k = KTagged -> Deref(params).Tagged
      [] k = KAccessToken -> Deref(c).AccessToken
      [] k = KKey -> Deref(c).Key

\* C2: the query parameters Do builds are exactly: site, always; sort, order,
\* filter, tagged when the Params string is not empty; page, pagesize when the
\* Params integer is not zero, as its base-10 numeral; access_token, key when
\* the client is not nil and its field is not empty; each with one value.
\* With only the site set and no credentials there is the one key site.
C2_QueryKeys ==
    pc \notin {"start", "panic"} =>
        /\ DOMAIN vals = ExpectedKeys
        /\ \A k \in DOMAIN vals : Len(vals[k]) = 1
        /\ \A k \in DOMAIN vals \ {KPage, KPageSize} : vals[k][1] = ExpectedValue(k)
        /\ KPage \in DOMAIN vals =>
              IsDecimal(vals[KPage][1]) /\ ParseInt(vals[KPage][1]) = Deref(params).Page
        /\ KPageSize \in DOMAIN vals =>
              IsDecimal(vals[KPageSize][1]) /\ ParseInt(vals[KPageSize][1]) = Deref(params).PageSize
        /\ (/\ Deref(params).Sort = <<>> /\ Deref(params).Order = <<>> /\ Deref(params).Filter = <<>>
            /\ Deref(params).Tagged = <<>> /\ Deref(params).Page = 0 /\ Deref(params).PageSize = 0
            /\ (c = NilPtr \/ (Deref(c).AccessToken = <<>> /\ Deref(c).Key = <<>>)))
           => Cardinality(DOMAIN vals) = 1

\* an empty site is still sent, and every optional parameter and both
\* credentials are sent when set
C2_Witness ==
    /\ pc = "get"
    /\ Deref(params).Site = <<>>
    /\ Deref(params).Page = -12
    /\ Cardinality(DOMAIN vals) = 9
    /\ vals[KSite] = <<(<<>>)>>
    /\ vals[KPage] = <<(<<"-", "1", "2">>)>>

\* the root the claim names
RootLiteral == <<"h", "t", "t", "p", "s", ":", "/", "/", "a", "p", "i", ".", "s", "t", "a", "c", "k", "e", "x", "c", "h", "a", "n", "g", "e", ".", "c", "o", "m", "/", "2", ".", "1">>

\* the characters of an encoded query
QueryChars == Letters \cup {"-", "_", ".", "~", "%", "+", "&", "="}

\* C3: the URL Do requests is the root (the constant
\* https://api.stackexchange.com/2.1 for a nil client or an empty Root field,
\* the client's Root otherwise), then the path with its placeholders
\* replaced by Deref(params).Args, then "?", then the URL-encoded query: name=value
\* pairs joined by "&", one per query parameter, names in ascending byte order.
C3_RequestURL ==
    (pc \in {"fail", "parse"}) =>
        LET url == log[Len(log)].url
            rt == IF c = NilPtr \/ Deref(c).Root = <<>> THEN RootLiteral ELSE Deref(c).Root
            sub == Substituted(path, Deref(params).Args,
                               Smaller(Len(Deref(params).Args), NumPlaceholders(path)))
            head == rt \o sub \o <<"?">>
            q == From(url, Len(head))
            pairs == [i \in 1..Len(Split(q, "&")) |-> Split(Split(q, "&")[i], "=")]
        IN /\ log[Len(log)].ev = "GET"
           /\ Len(url) > Len(head)
           /\ Upto(url, Len(head)) = head
           /\ \A i \in 1..Len(q) : q[i] \in QueryChars
           /\ Len(pairs) = Cardinality(DOMAIN vals)
           /\ \A i \in 1..Len(pairs) :
                 /\ Len(pairs[i]) = 2
                 /\ Unescape(pairs[i][1]) \in DOMAIN vals
                 /\ Unescape(pairs[i][2]) = vals[Unescape(pairs[i][1])][1]
           /\ \A i \in 1..(Len(pairs) - 1) :
                 StrLess(Unescape(pairs[i][1]), Unescape(pairs[i + 1][1]))

\* a request sent for a client with its own root and credentials that need
\* escaping, on a path with a placeholder
C3_Witness ==
    /\ pc = "parse"
    /\ c # NilPtr
    /\ Deref(c).Root # <<>>
    /\ Deref(c).Key = <<"k", "=", "1", "&", "x">>
    /\ Deref(params).Tagged = <<"g", "o", ";", "c", "#">>
    /\ path = PathQuestionAnswers
    /\ Deref(params).Args = <<<<"1", ";", "2">>>>
    /\ Deref(params).Sort = <<>> /\ Deref(params).Order = <<>> /\ Deref(params).Filter = <<>>
    /\ Deref(params).Page = 0 /\ Deref(params).PageSize = 0 /\ Deref(c).AccessToken = <<>>
    /\ Deref(params).Site = <<"s", "o">>
    /\ log[1].url = <<"h", "t", "t", "p", ":", "/", "/", "h", "/", "2", "/", "q", "u", "e", "s", "t", "i", "o", "n", "s", "/", "1", ";", "2", "/", "a", "n", "s", "w", "e", "r", "s", "?", "k", "e", "y", "=", "k", "%", "3", "D", "1", "%", "2", "6", "x", "&", "s", "i", "t", "e", "=", "s", "o", "&", "t", "a", "g", "g", "e", "d", "=", "g", "o", "%", "3", "B", "c", "%", "2", "3">>

Events == [i \in 1..Len(log) |-> log[i].ev]

Count(e) == Cardinality({i \in 1..Len(log) : log[i].ev = e})

\* C8: Do issues one GET and never a second (every call that returns has
\* issued exactly one); when the GET fails, Do returns
\* the transport's error as it is with a nil envelope, without decoding,
\* without touching the destination, and without another request.
C8_TransportErrorNoRetry ==
    /\ Count("GET") <= 1
    /\ pc = "done" => Count("GET") = 1
    /\ (pc = "done" /\ err # Nil) =>
          /\ eret = err
          /\ wret = NilPtr
          /\ Count("decode") = 0
          /\ dv = DoDest
          /\ Events = <<"GET", "return">>

\* a failed GET, returned
C8_Witness ==
    /\ pc = "done"
    /\ err = "tls: handshake failure"
    /\ eret = "tls: handshake failure"
    /\ wret = NilPtr

\* C9: when the GET succeeds the response body is closed once, after the
\* decode and before Do returns, whether or not the decode gave an error;
\* it is never closed twice, and when the GET fails nothing is closed.
C9_BodyClosedOnce ==
    /\ Count("close") <= 1
    /\ resp # NilPtr => Deref(resp).closed = Count("close")
    /\ (pc = "done" /\ err = Nil) =>
          /\ Deref(resp).closed = 1
          /\ Events = <<"GET", "decode", "close", "return">>
    /\ (pc = "done" /\ err # Nil) => (Count("close") = 0 /\ resp = NilPtr)

\* the body closed after a decode that gave an error
C9_Witness ==
    /\ pc = "done"
    /\ err = Nil
    /\ eret = ErrUnexpectedEOF
    /\ Deref(resp).closed = 1

====
